---- MODULE Spec2Model ----
(***************************************************************************)
(* A model of the mangadex client: the request handler (_handler.py) with  *)
(* its rate-limit recovery, the paginated chapter listing and the chapter  *)
(* download pipeline (chapters.py).  The program is sequential; the        *)
(* remote service and the network are the environment.                     *)
(***************************************************************************)
EXTENDS Integers, Sequences, FiniteSets, TLC

VARIABLES
    op,             \* the top-level operation of the run
    arg,            \* its arguments
    proxies,        \* RequestHandler.__proxies
    manga_id,       \* MangaChapters.__manga_id
    manga_title,    \* MangaChapters.manga_title
    feed,           \* the service's chapter feed of manga_id (environment)
    pc,             \* position of the calling code
    gpc,            \* position inside RequestHandler.get
    req,            \* arguments of the get call in progress
    resp,           \* the response get returns
    exc,            \* the exception in flight / that ended the run
    list_json_all,  \* __chapters_json: collected feed segments
    chapters_len,   \* __chapters_json: size of the last segment
    mult,           \* __chapters_json: page index
    all_chapters,   \* the listing a download operation iterates
    index,          \* position in all_chapters of the chapter being downloaded
    json,           \* _download: the resolve response's json
    chapter_dir,    \* _download: path
    page_index,     \* _download: index of the page loop
    dirs,           \* file system: directories
    files,          \* file system: path -> content
    result,         \* value returned by the operation
    printed,        \* lines printed by the operation
    faults,         \* number of faulty answers the environment has given
    run,            \* number of operations started
    log,            \* history of requests, cooldowns and file-system effects
    uname,          \* platform.uname() of the machine the client runs on
    search_lang,    \* MangaSearch.__preferred_lang
    catalog,        \* the service's manga entities, in server order (environment)
    prev_log,       \* log of the previous run of the operation
    prev_files,     \* files at the end of the previous run
    prev_dirs,      \* dirs at the end of the previous run
    defaults        \* the objects the default arguments are bound to

vars == <<op, arg, proxies, manga_id, manga_title, feed, pc, gpc, req, resp, exc,
          list_json_all, chapters_len, mult, all_chapters, index, json,
          chapter_dir, page_index, dirs, files, result, printed, faults, run,
          log, uname, search_lang, catalog, prev_log, prev_files, prev_dirs,
          defaults>>

(***************************************************************************)
(* Bounds of the model.                                                    *)
(***************************************************************************)
MaxFaults == 2      \* faulty answers (429, error, network failure) per behaviour
MaxTokens == 3      \* tokens of an endpoint passed directly to get
MaxFeedPages == 2   \* full pages of the large feeds
MaxChapters == 3    \* chapters of the feeds that are downloaded
MaxRuns == 2        \* listings made one after the other

(***************************************************************************)
(* Strings.  A string that the code splits is a sequence of tokens, each   *)
(* the separator or a piece without separator; Join gives the string.      *)
(***************************************************************************)
None == "<None>"

\* str(v) as an f-string formats it
Fmt(v) == IF v = None THEN "None" ELSE v

RECURSIVE Join(_)
Join(s) == IF s = <<>> THEN "" ELSE Head(s) \o Join(Tail(s))

RECURSIVE SplitAcc(_, _, _, _)
SplitAcc(s, sep, cur, acc) ==
    IF s = <<>> THEN Append(acc, cur)
    ELSE IF Head(s) = sep THEN SplitAcc(Tail(s), sep, "", Append(acc, cur))
    ELSE SplitAcc(Tail(s), sep, cur \o Head(s), acc)

Last(q) == q[Len(q)]

\* str.split(sep)
Split(s, sep) == SplitAcc(s, sep, "", <<>>)

\* [seg for seg in s.split(sep) if seg != ""]
NonEmptySegs(s, sep) == SelectSeq(Split(s, sep), LAMBDA seg : seg # "")

(***************************************************************************)
(* RequestHandler                                                          *)
(***************************************************************************)
api_base_url == "https://api.mangadex.org"

EmptyParams == <<>>

available_cooldowns == ("at-home" :> 60) @@ ("__default" :> 60)

\* __basic_rate_limiter: the cooldown chosen for an endpoint
WhichCooldown(endpoint) ==
    LET endpoint_split == NonEmptySegs(endpoint, "/")
        first == IF Len(endpoint_split) > 0 THEN endpoint_split[1] ELSE None
    IN  available_cooldowns[IF first \in DOMAIN available_cooldowns
                            THEN first ELSE "__default"]

\* __basic_rate_limiter: the number of sleep(1) calls of the while loop
RECURSIVE SleepLoop(_, _)
SleepLoop(which_cooldown, slept) ==
    IF which_cooldown > -1 THEN SleepLoop(which_cooldown - 1, slept + 1)
    ELSE slept

\* the property user_agent on a machine whose uname is u
UserAgent(u) ==
    "User-Agent" :> ("MangaDex Scraper (" \o u.system \o "; " \o u.release \o ") "
                     \o u.machine \o "/" \o u.node)

\* the request session.get sends for the call in progress
HttpRequest(r) ==
    [url |-> (IF r.override_url = None THEN api_base_url ELSE r.override_url)
             \o "/" \o Join(r.endpoint),
     params |-> r.params,
     proxies |-> proxies,
     headers |-> UserAgent(uname)]

(***************************************************************************)
(* The environment: the service's answers.                                 *)
(***************************************************************************)
PageLimit == 500

\* a raw item of the chapter feed
FeedItem(id, title, volume, chapter, pages) ==
    [id |-> id,
     attributes |-> [title |-> title, volume |-> volume, chapter |-> chapter,
                     pages |-> pages]]

\* the chapters the small feeds are made of, in feed order
Pool == << FeedItem("c101", "B", "2", "10.1", 2),
           FeedItem("c9", "A", "1", "9", 3),
           FeedItem("c10", None, None, "10", 0),
           FeedItem("c100", "C", "2", "10.0", 1),
           FeedItem("c10b", None, None, "10", 2) >>

\* the page-serving session the service gives for a chapter id
AtHome(id) ==
    [result |-> "ok",
     baseUrl |-> "https://cdn.example",
     chapter |->
        [hash |-> "h-" \o id,
         data |-> CASE id = "c9"   -> << <<"x1", ".", "png">>, <<"x2", ".", "v2", ".", "jpg">> >>
                    [] id = "c101" -> << >>
                    [] id = "c10b" -> << <<"y1", ".", "png">> >>
                    [] OTHER       -> << <<"z1", ".", "png", ".">> >>,
         dataSaver |-> CASE id = "c9"   -> << <<"s1", ".", "jpg">> >>
                         [] id = "c101" -> << >>
                         [] id = "c10b" -> << <<"t1", ".", ".", "jpg">>, <<"t2">> >>
                         [] OTHER       -> << <<"u1", ".", "jpg">> >>]]

\* a raw manga entity of the catalog
Entity(id, title, altTitles) ==
    [id |-> id, type |-> "manga",
     attributes |-> [title |-> title, altTitles |-> altTitles,
                     description |-> [en |-> "A mercenary."],
                     status |-> "ongoing", year |-> 1989, contentRating |-> "safe",
                     tags |-> << >>, originalLanguage |-> "ja",
                     availableTranslatedLanguages |-> <<"en">>,
                     links |-> EmptyParams]]

\* the entity the service holds for an id
EntityOf(id) ==
    IF \E i \in 1..Len(catalog) : catalog[i].id = id
    THEN catalog[CHOOSE i \in 1..Len(catalog) :
                     catalog[i].id = id /\ \A k \in 1..(i - 1) : catalog[k].id # id]
    ELSE Entity(id, [en |-> "Berserk"], << >>)

\* the service's tag dictionary, in dictionary order
TagDictionary ==
    << [id |-> "tag-1", attributes |-> [name |-> [en |-> "Gore"]]],
       [id |-> "tag-2", attributes |-> [name |-> [en |-> "Comedy"]]],
       [id |-> "tag-3", attributes |-> [name |-> [en |-> "Action"]]],
       [id |-> "tag-4", attributes |-> [name |-> [en |-> "Comedy"]]] >>

ErrorJson(status) ==
    [result |-> "error",
     errors |-> << [status |-> status, title |-> "error", detail |-> "detail"] >>]

Min(a, b) == IF a < b THEN a ELSE b

\* the feed items at offset..offset+limit-1
FeedPage(offset, limit) ==
    IF offset >= Len(feed) THEN << >>
    ELSE SubSeq(feed, offset + 1, Min(offset + limit, Len(feed)))

IsFeed(r) ==
    /\ r.override_url = None
    /\ Len(r.endpoint) = 5
    /\ r.endpoint[1] = "manga" /\ r.endpoint[3] = manga_id /\ r.endpoint[5] = "feed"
    /\ r.params # EmptyParams

IsAtHome(r) ==
    /\ r.override_url = None
    /\ Len(r.endpoint) = 5
    /\ r.endpoint[1] = "at-home" /\ r.endpoint[3] = "server"

IsTags(r) == r.override_url = None /\ r.endpoint = <<"manga", "/", "tag">>

IsLookup(r) ==
    /\ r.override_url = None /\ ~IsTags(r)
    /\ Len(r.endpoint) = 3 /\ r.endpoint[1] = "manga" /\ r.endpoint[2] = "/"

IsSearch(r) == r.override_url = None /\ r.endpoint = <<"manga">>

\* the outcomes of the requests recorded in history l, in order
RECURSIVE Answers(_)
Answers(l) ==
    IF l = << >> THEN << >>
    ELSE IF Head(l).ev # "http" THEN Answers(Tail(l))
    ELSE << CASE Head(l).status = 200 -> "ok"
              [] Head(l).status = 429 -> "429"
              [] Head(l).status = 0 -> "raise"
              [] OTHER -> "error" >> \o Answers(Tail(l))

\* the outcomes the next request may have: while an operation is run again
\* the service answers each request as it did in the run before
Outcomes ==
    IF Len(Answers(prev_log)) > Len(Answers(log))
    THEN { Answers(prev_log)[Len(Answers(log)) + 1] }
    ELSE {"ok"} \cup (IF faults < MaxFaults THEN {"429", "error", "raise"} ELSE {})

\* the response to request r when the service answers with outcome o
Serve(r, o) ==
    LET status == CASE o = "ok" -> 200 [] o = "429" -> 429 [] OTHER -> 404
        url == HttpRequest(r).url
    IN  [status_code |-> status,
         body |-> IF r.override_url # None
                  THEN (IF o = "ok" THEN "image of " \o url
                        ELSE "error page " \o ToString(status))
                  ELSE IF o # "ok" THEN ErrorJson(status)
                  ELSE IF IsFeed(r)
                       THEN [result |-> "ok",
                             data |-> FeedPage(r.params.offset, r.params.limit)]
                  ELSE IF IsAtHome(r) THEN AtHome(r.endpoint[5])
                  ELSE IF IsTags(r) THEN [result |-> "ok", data |-> TagDictionary]
                  ELSE IF IsLookup(r) THEN [result |-> "ok", data |-> EntityOf(r.endpoint[3])]
                  ELSE IF IsSearch(r) THEN [result |-> "ok", data |-> catalog]
                  ELSE [result |-> "ok"]]

(***************************************************************************)
(* RequestHandler.get                                                      *)
(***************************************************************************)
NoResp == [status_code |-> 0, body |-> ""]
NoReq == [endpoint |-> << >>, params |-> EmptyParams, override_url |-> None]

inputs == <<op, arg, proxies, manga_id, manga_title, feed>>
extv == <<uname, search_lang, catalog, prev_log, prev_files, prev_dirs, defaults>>
listv == <<list_json_all, chapters_len, mult>>
dlv == <<all_chapters, index, json, chapter_dir, page_index>>
fsv == <<dirs, files>>
outv == <<result, printed>>

\* the chapter position (1-based; 0 outside _download) the code is working for
Pos == IF pc \in {"resolve_wait", "page_loop", "page_wait"} THEN index + 1 ELSE 0

\* a caller enters get(endpoint, params=..., override_url=...)
EnterGet(endpoint, params, override_url) ==
    /\ req' = [endpoint |-> endpoint, params |-> params, override_url |-> override_url]
    /\ gpc' = "first"

HttpEvent(status) ==
    [ev |-> "http", request |-> HttpRequest(req), status |-> status, pos |-> Pos]

\* where get goes after the first response r
\* faulty variants: no retry; the error leaves get
AfterFirstNoRetry(r) == "returned"
AfterFirstPropagates(r) == IF r.status_code = 429 THEN "raised" ELSE "returned"
AfterFirst(r) == IF r.status_code = 429 THEN "limited" ELSE "returned"

\* where get goes after the second response r
\* faulty variant: a second 429 starts another recovery cycle
AfterSecondLoops(r) == IF r.status_code = 429 THEN "limited" ELSE "returned"
AfterSecond(r) == "returned"

\* the request the except branch sends
\* faulty variant: the retry drops the params
RetryNoParams(r) == [r EXCEPT !.params = EmptyParams]
RetryRequest(r) == r

\* try: resp = self.session.get(...); if resp.status_code == 429: raise RateLimitedError
GetFirst ==
    /\ gpc = "first"
    /\ \E o \in Outcomes :
        /\ faults' = faults + (IF o = "ok" THEN 0 ELSE 1)
        /\ IF o = "raise"
           THEN /\ log' = Append(log, HttpEvent(0))
                /\ gpc' = "raised"
                /\ exc' = "ConnectionError"
                /\ UNCHANGED resp
           ELSE /\ log' = Append(log, HttpEvent(Serve(req, o).status_code))
                /\ gpc' = AfterFirst(Serve(req, o))
                /\ resp' = IF gpc' = "returned" THEN Serve(req, o) ELSE resp
                /\ exc' = IF gpc' = "raised" THEN "RateLimitedError" ELSE exc
    /\ UNCHANGED <<inputs, extv, pc, req, listv, dlv, fsv, outv, run>>

\* except RateLimitedError: self.__basic_rate_limiter(endpoint)
BasicRateLimiter ==
    /\ gpc = "limited"
    /\ log' = Append(log, [ev |-> "cooldown", endpoint |-> Join(req.endpoint),
                           seconds |-> SleepLoop(WhichCooldown(req.endpoint), 0),
                           pos |-> Pos])
    /\ gpc' = "second"
    /\ UNCHANGED <<inputs, extv, pc, req, resp, exc, listv, dlv, fsv, outv, faults, run>>

\* return self.session.get(...) of the except branch
GetSecond ==
    /\ gpc = "second"
    /\ \E o \in Outcomes :
        /\ faults' = faults + (IF o = "ok" THEN 0 ELSE 1)
        /\ IF o = "raise"
           THEN /\ log' = Append(log, [HttpEvent(0) EXCEPT !.request = HttpRequest(RetryRequest(req))])
                /\ gpc' = "raised"
                /\ exc' = "ConnectionError"
                /\ UNCHANGED resp
           ELSE /\ log' = Append(log, [HttpEvent(Serve(RetryRequest(req), o).status_code)
                                         EXCEPT !.request = HttpRequest(RetryRequest(req))])
                /\ gpc' = AfterSecond(Serve(RetryRequest(req), o))
                /\ resp' = IF gpc' = "returned" THEN Serve(RetryRequest(req), o) ELSE resp
                /\ UNCHANGED exc
    /\ UNCHANGED <<inputs, extv, pc, req, listv, dlv, fsv, outv, run>>

(***************************************************************************)
(* A direct call of RequestHandler.get                                     *)
(***************************************************************************)
CallEvent(endpoint, params, override_url, p) ==
    [ev |-> "call",
     url |-> (IF override_url = None THEN api_base_url ELSE override_url)
             \o "/" \o Join(endpoint),
     params |-> params, pos |-> p]

GetCall ==
    /\ pc = "start" /\ op = "get"
    /\ EnterGet(arg.endpoint, arg.params, arg.override_url)
    /\ log' = Append(log, CallEvent(arg.endpoint, arg.params, arg.override_url, 0))
    /\ pc' = "get_wait"
    /\ UNCHANGED <<inputs, extv, resp, exc, listv, dlv, fsv, outv, faults, run>>

GetReturn ==
    /\ pc = "get_wait" /\ gpc \in {"returned", "raised"}
    /\ gpc' = "idle"
    /\ IF gpc = "returned"
       THEN pc' = "done" /\ result' = resp
       ELSE pc' = "failed" /\ UNCHANGED result
    /\ UNCHANGED <<inputs, extv, req, resp, exc, listv, dlv, fsv, printed, faults, run, log>>

(***************************************************************************)
(* MangaChapters.__chapters_json and MangaChapters.all                     *)
(***************************************************************************)
preferred_lang == "en"

\* while chapters_len == 500
\* faulty variant: the loop goes on until a page is empty
MorePagesUntilEmpty(len) == len > 0
MorePages(len) == len = PageLimit

\* offset_calc = mult * 500 if mult > 0 else 0
\* faulty variant: the pages overlap by one item
OffsetCalcOverlap(m) == IF m > 0 THEN m * PageLimit - 1 ELSE 0
OffsetCalc(m) == IF m > 0 THEN m * PageLimit ELSE 0

FeedEndpoint == <<"manga", "/", manga_id, "/", "feed">>

FeedParams(m) ==
    [translatedLanguage |-> preferred_lang, limit |-> PageLimit, offset |-> OffsetCalc(m)]

\* list_json_all, chapters_len, mult = [], 500, 0
ChaptersJsonBegin ==
    /\ pc = "start" /\ op \in {"all", "download_all", "download_chapter_by_number"}
    /\ list_json_all' = << >> /\ chapters_len' = PageLimit /\ mult' = 0
    /\ pc' = "feed_loop"
    /\ UNCHANGED <<inputs, extv, gpc, req, resp, exc, dlv, fsv, outv, faults, run, log>>

\* the loop body up to the get call
ChaptersJsonRequest ==
    /\ pc = "feed_loop" /\ MorePages(chapters_len)
    /\ EnterGet(FeedEndpoint, FeedParams(mult), None)
    /\ log' = Append(log, CallEvent(FeedEndpoint, FeedParams(mult), None, 0))
    /\ pc' = "feed_wait"
    /\ UNCHANGED <<inputs, extv, resp, exc, listv, dlv, fsv, outv, faults, run>>

IsError(j) == "result" \in DOMAIN j /\ j.result = "error"

\* the loop body from .json() on
\* faulty variant: a page with result = "error" ends the loop without an error
ChaptersJsonResponseSwallows ==
    /\ pc = "feed_wait" /\ gpc \in {"returned", "raised"}
    /\ gpc' = "idle"
    /\ IF gpc = "raised"
       THEN pc' = "failed" /\ UNCHANGED <<exc, listv>>
       ELSE IF IsError(resp.body)
       THEN pc' = "feed_loop" /\ chapters_len' = 0 /\ UNCHANGED <<exc, list_json_all, mult>>
       ELSE /\ list_json_all' = Append(list_json_all, resp.body)
            /\ chapters_len' = Len(resp.body.data)
            /\ mult' = mult + 1
            /\ pc' = "feed_loop"
            /\ UNCHANGED exc
    /\ UNCHANGED <<inputs, extv, req, resp, dlv, fsv, outv, faults, run, log>>
ChaptersJsonResponse ==
    /\ pc = "feed_wait" /\ gpc \in {"returned", "raised"}
    /\ gpc' = "idle"
    /\ IF gpc = "raised"
       THEN pc' = "failed" /\ UNCHANGED <<exc, listv>>
       ELSE IF IsError(resp.body)
       THEN pc' = "failed" /\ exc' = "ResultNotOkayError" /\ UNCHANGED listv
       ELSE /\ list_json_all' = Append(list_json_all, resp.body)
            /\ chapters_len' = Len(resp.body.data)
            /\ mult' = mult + 1
            /\ pc' = "feed_loop"
            /\ UNCHANGED exc
    /\ UNCHANGED <<inputs, extv, req, resp, dlv, fsv, outv, faults, run, log>>

RECURSIVE Unpack(_)
\* for json_seg in self.__chapters_json: [... for item in json_seg["data"]]
Unpack(segs) == IF segs = << >> THEN << >> ELSE Head(segs).data \o Unpack(Tail(segs))

Chapter(item) ==
    [id |-> item.id, title |-> item.attributes.title, volume |-> item.attributes.volume,
     number |-> item.attributes.chapter, pages |-> item.attributes.pages]

\* the value of the property all, given the feed segments
All(segs) ==
    LET chapters == [i \in 1..Len(Unpack(segs)) |-> Chapter(Unpack(segs)[i])]
    IN  <<Len(chapters), chapters>>

\* a caller reads the property all
AllReturn ==
    /\ pc = "feed_loop" /\ ~MorePages(chapters_len) /\ op = "all"
    /\ result' = All(list_json_all)
    /\ pc' = "done"
    /\ UNCHANGED <<inputs, extv, gpc, req, resp, exc, listv, dlv, fsv, printed, faults, run, log>>

\* the caller makes another listing with the same instance
Restart ==
    /\ pc \in {"done", "failed"} /\ run < MaxRuns
    /\ pc' = "start" /\ run' = run + 1
    /\ exc' = "none" /\ result' = None /\ log' = << >>
    /\ UNCHANGED <<inputs, extv, gpc, req, resp, listv, dlv, fsv, printed, faults>>

(***************************************************************************)
(* MangaChapters._download                                                 *)
(***************************************************************************)
\* the truth value of an optional string argument
Truthy(v) == v # None /\ v # ""

\* chapter_path and path of _download
ChapterPath(chapter) ==
    IF chapter.title # None
    THEN Fmt(chapter.number) \o ": " \o Fmt(chapter.title)
    ELSE chapter.number

\* faulty variant: a directory that exists is never reused
DownloadPathFresh(chapter) ==
    LET path == IF Truthy(arg.path)
                THEN arg.path \o "/" \o Fmt(ChapterPath(chapter))
                ELSE "./" \o Fmt(manga_title) \o "/" \o Fmt(ChapterPath(chapter))
    IN  IF path \in dirs THEN path \o " (1)" ELSE path
DownloadPath(chapter) ==
    IF Truthy(arg.path)
    THEN arg.path \o "/" \o Fmt(ChapterPath(chapter))
    ELSE "./" \o Fmt(manga_title) \o "/" \o Fmt(ChapterPath(chapter))

ResolveEndpoint(chapter) == <<"at-home", "/", "server", "/", chapter.id>>

\* _download up to the resolve request
EnterDownload(chapter, i) ==
    /\ chapter_dir' = DownloadPath(chapter)
    /\ EnterGet(ResolveEndpoint(chapter), EmptyParams, None)
    /\ log' = Append(log, CallEvent(ResolveEndpoint(chapter), EmptyParams, None, i + 1))
    /\ pc' = "resolve_wait"

\* the directories after the resolve response j has been looked at
\* faulty variant: the directory is made before the result is looked at
DirsAfterResolveEager(j, path) == dirs \cup {path}
DirsAfterResolve(j, path) ==
    IF IsError(j) THEN dirs
    ELSE IF path \notin dirs THEN dirs \cup {path} ELSE dirs

\* pages and quality of _download
\* faulty variant: no more pages than the chapter record declares
PagesDeclared(j) ==
    LET got == IF arg.datasaver = FALSE THEN j.chapter.data ELSE j.chapter.dataSaver
        c == all_chapters[index + 1].pages
    IN  SubSeq(got, 1, IF c < Len(got) THEN c ELSE Len(got))
Pages(j) == IF arg.datasaver = FALSE THEN j.chapter.data ELSE j.chapter.dataSaver
Quality == IF arg.datasaver = FALSE THEN "data" ELSE "data-saver"

\* from .json() of the resolve response to the page loop
DownloadResolved ==
    /\ pc = "resolve_wait" /\ gpc \in {"returned", "raised"}
    /\ gpc' = "idle"
    /\ IF gpc = "raised"
       THEN pc' = "failed" /\ UNCHANGED <<exc, json, page_index, dirs, log>>
       ELSE /\ json' = resp.body
            /\ dirs' = DirsAfterResolve(resp.body, chapter_dir)
            /\ log' = IF dirs' # dirs
                      THEN Append(log, [ev |-> "mkdir", path |-> chapter_dir, pos |-> Pos])
                      ELSE log
            /\ IF IsError(resp.body)
               THEN pc' = "failed" /\ exc' = "ResultNotOkayError" /\ UNCHANGED page_index
               ELSE pc' = "page_loop" /\ page_index' = 0 /\ UNCHANGED exc
    /\ UNCHANGED <<inputs, extv, req, resp, listv, all_chapters, index, chapter_dir, files,
                   outv, faults, run>>

\* ext_type = [seg for seg in page_url.split(".") if seg != ""][-1]
\* faulty variant: the first segment instead of the last
ExtTypeFirst(page_url) == NonEmptySegs(page_url, ".")[1]
ExtType(page_url) == Last(NonEmptySegs(page_url, "."))

\* the file of the page at index i (0-based)
\* faulty variant: files numbered from 0
PageFileZeroBased(path, i, page_url) ==
    path \o "/" \o ToString(i) \o "." \o ExtType(page_url)
PageFile(path, i, page_url) ==
    path \o "/" \o ToString(i + 1) \o "." \o ExtType(page_url)

\* page_dest = f"{quality}/{json['chapter']['hash']}/{page_url}"
PageDest(j, page_url) == <<Quality, "/", j.chapter.hash, "/">> \o page_url

\* one turn of the page loop up to the get call: the file is opened for
\* writing (created or truncated) before the page is requested
DownloadPage ==
    /\ pc = "page_loop" /\ page_index < Len(Pages(json))
    /\ LET page_url == Pages(json)[page_index + 1] IN
       IF Len(NonEmptySegs(page_url, ".")) = 0
       THEN /\ pc' = "failed" /\ exc' = "IndexError"
            /\ UNCHANGED <<gpc, req, files, log>>
       ELSE LET file == PageFile(chapter_dir, page_index, page_url) IN
            /\ files' = (file :> "") @@ files
            /\ EnterGet(PageDest(json, page_url), EmptyParams, json.baseUrl)
            /\ log' = log \o << [ev |-> "open", path |-> file, pos |-> Pos],
                                CallEvent(PageDest(json, page_url), EmptyParams,
                                          json.baseUrl, Pos) >>
            /\ pc' = "page_wait"
            /\ UNCHANGED exc
    /\ UNCHANGED <<inputs, extv, resp, listv, dlv, dirs, outv, faults, run>>

\* what _download writes to the open file for response r
Written(r) == r.body

\* page_image_file.write(....content) and the end of the with block
DownloadPageWritten ==
    /\ pc = "page_wait" /\ gpc \in {"returned", "raised"}
    /\ gpc' = "idle"
    /\ LET file == PageFile(chapter_dir, page_index, Pages(json)[page_index + 1]) IN
       IF gpc = "raised"
       THEN pc' = "failed" /\ UNCHANGED <<page_index, files, log>>
       ELSE /\ files' = [files EXCEPT ![file] = Written(resp)]
            /\ log' = Append(log, [ev |-> "write", path |-> file, content |-> Written(resp),
                                   status |-> resp.status_code, pos |-> Pos])
            /\ page_index' = page_index + 1
            /\ pc' = "page_loop"
    /\ UNCHANGED <<inputs, extv, req, resp, exc, listv, all_chapters, index, json, chapter_dir,
                   dirs, outv, faults, run>>

(***************************************************************************)
(* MangaChapters.download_all and download_chapter_by_number               *)
(***************************************************************************)
\* total_chapters, all_chapters = self.all
DownloadAllBegin ==
    /\ pc = "feed_loop" /\ ~MorePages(chapters_len) /\ op = "download_all"
    /\ all_chapters' = All(list_json_all)[2]
    /\ index' = 0
    /\ pc' = "dl_loop"
    /\ UNCHANGED <<inputs, extv, gpc, req, resp, exc, listv, json, chapter_dir, page_index,
                   fsv, outv, faults, run, log>>

\* one turn of the for loop: the progress line and the call of _download
DownloadAllChapter ==
    /\ pc = "dl_loop" /\ index < Len(all_chapters)
    /\ printed' = Append(printed, [line |-> "downloading",
                                   number |-> all_chapters[index + 1].number,
                                   downloaded |-> index, total |-> Len(all_chapters)])
    /\ EnterDownload(all_chapters[index + 1], index)
    /\ UNCHANGED <<inputs, extv, resp, exc, listv, all_chapters, index, json, page_index,
                   fsv, result, faults, run>>

\* the for loop is exhausted
DownloadAllDone ==
    /\ pc = "dl_loop" /\ index >= Len(all_chapters)
    /\ printed' = Append(printed, [line |-> "downloaded all"])
    /\ pc' = "done"
    /\ UNCHANGED <<inputs, extv, gpc, req, resp, exc, listv, dlv, fsv, result, faults, run, log>>

\* chapter.number == number
\* faulty variant: the labels are compared as numbers
NumberMatchesNumeric(a, b) ==
    LET Canon(x) == IF x = "10.0" THEN "10" ELSE x IN Canon(a) = Canon(b)
NumberMatches(a, b) == a = b

\* the position (0-based) of the chapter the scan stops at, -1 for none
\* faulty variant: the scan does not stop at the first match
ScanLast(chapters, number) ==
    LET m == { i \in 1..Len(chapters) : NumberMatches(chapters[i].number, number) }
    IN  IF m = {} THEN -1 ELSE (CHOOSE i \in m : \A k \in m : k <= i) - 1
Scan(chapters, number) ==
    LET m == { i \in 1..Len(chapters) : NumberMatches(chapters[i].number, number) }
    IN  IF m = {} THEN -1 ELSE (CHOOSE i \in m : \A k \in m : i <= k) - 1

\* for chapter in self.all[1]: if chapter.number == number: ...
ByNumberScan ==
    /\ pc = "feed_loop" /\ ~MorePages(chapters_len) /\ op = "download_chapter_by_number"
    /\ all_chapters' = All(list_json_all)[2]
    /\ LET found == Scan(all_chapters', arg.number) IN
       IF found >= 0
       THEN /\ index' = found
            /\ printed' = Append(printed, [line |-> "matched", number |-> arg.number])
            /\ EnterDownload(all_chapters'[found + 1], found)
       ELSE /\ printed' = Append(printed, [line |-> "could not find", number |-> arg.number])
            /\ pc' = "done"
            /\ UNCHANGED <<index, gpc, req, chapter_dir, log>>
    /\ UNCHANGED <<inputs, extv, resp, exc, listv, json, page_index, fsv, result, faults, run>>

\* the chapter downloaded after the one at index
\* faulty variant: every other chapter is skipped
NextIndexSkips(i) == i + 2
NextIndex(i) == i + 1

\* _download returns to its caller
DownloadReturn ==
    /\ pc = "page_loop" /\ page_index >= Len(Pages(json))
    /\ IF op = "download_all"
       THEN /\ index' = NextIndex(index)
            /\ pc' = "dl_loop"
            /\ UNCHANGED printed
       ELSE /\ printed' = Append(printed, [line |-> "Successfully downloaded chapter"])
            /\ pc' = "done"
            /\ UNCHANGED index
    /\ UNCHANGED <<inputs, extv, gpc, req, resp, exc, listv, all_chapters, json, chapter_dir,
                   page_index, fsv, result, faults, run, log>>

(***************************************************************************)
(* MangaSearch                                                             *)
(***************************************************************************)
\* the loop over altTitles of __manga_from_json, entered with the fallback
\* title: the first dict that has the language wins
\* faulty variant: no break, so the last match wins
RECURSIVE AltTitleNoBreak(_, _, _)
AltTitleNoBreak(alts, lang, title) ==
    IF alts = << >> THEN title
    ELSE AltTitleNoBreak(Tail(alts), lang,
                         IF lang \in DOMAIN Head(alts) THEN Head(alts)[lang] ELSE title)
RECURSIVE AltTitle(_, _, _)
AltTitle(alts, lang, title) ==
    IF alts = << >> THEN title
    ELSE IF lang \in DOMAIN Head(alts) THEN Head(alts)[lang]
    ELSE AltTitle(Tail(alts), lang, title)

\* __manga_from_json(json, lang)
MangaFromJson(j, lang) ==
    [title |-> AltTitle(j.attributes.altTitles, lang,
                        IF "en" \in DOMAIN j.attributes.title
                        THEN j.attributes.title["en"] ELSE None),
     description |-> IF lang \in DOMAIN j.attributes.description
                     THEN j.attributes.description[lang] ELSE None,
     type |-> j.type,
     id |-> j.id,
     status |-> j.attributes.status,
     year |-> j.attributes.year,
     rating |-> j.attributes.contentRating,
     tags |-> j.attributes.tags,
     original_language |-> j.attributes.originalLanguage,
     available_languages |-> j.attributes.availableTranslatedLanguages,
     links |-> j.attributes.links]

\* [self.__manga_from_json(manga_json, self.preferred_lang) for manga_json in json["data"]]
MangaList(data, lang) == [i \in 1..Len(data) |-> MangaFromJson(data[i], lang)]

\* __sort_format(sort)
SortFormat(sort) ==
    [key \in { "order[" \o k \o "]" : k \in DOMAIN sort } |->
        sort[CHOOSE k \in DOMAIN sort : "order[" \o k \o "]" = key]]

\* {"title": title, **self.__sort_format(sort)}
TitleParams(title, sort) == SortFormat(sort) @@ [title |-> title]

\* [tag["id"] for tag in tags_json["data"] if tag["attributes"]["name"]["en"] in names]
\* faulty variant: the ids come in the order of the caller's names
RECURSIVE TagIdsCallerOrder(_, _)
TagIdsCallerOrder(tags, names) ==
    IF names = << >> THEN << >>
    ELSE LET hit == SelectSeq(tags, LAMBDA t : t.attributes.name["en"] = Head(names))
         IN  [i \in 1..Len(hit) |-> hit[i].id] \o TagIdsCallerOrder(tags, Tail(names))
RECURSIVE TagIds(_, _)
TagIds(tags, names) ==
    IF tags = << >> THEN << >>
    ELSE (IF \E i \in 1..Len(names) : names[i] = Head(tags).attributes.name["en"]
          THEN << Head(tags).id >> ELSE << >>) \o TagIds(Tail(tags), names)

\* the params of the filtered search of search_by_tags
TagParams(tags_json, include_tags, exclude_tags, sort) ==
    SortFormat(sort)
    @@ ("includedTags[]" :> TagIds(tags_json.data, include_tags))
    @@ ("excludedTags[]" :> TagIds(tags_json.data, exclude_tags))

\* search_by_id up to the get call
SearchByIdCall ==
    /\ pc = "start" /\ op = "search_by_id"
    /\ EnterGet(<<"manga", "/", arg.manga_id>>, EmptyParams, None)
    /\ log' = Append(log, CallEvent(<<"manga", "/", arg.manga_id>>, EmptyParams, None, 0))
    /\ pc' = "id_wait"
    /\ UNCHANGED <<inputs, extv, resp, exc, listv, dlv, fsv, outv, faults, run>>

\* search_by_id from .json() on
SearchByIdReturn ==
    /\ pc = "id_wait" /\ gpc \in {"returned", "raised"}
    /\ gpc' = "idle"
    /\ IF gpc = "raised"
       THEN pc' = "failed" /\ UNCHANGED <<exc, json, result>>
       ELSE /\ json' = resp.body
            /\ IF IsError(resp.body)
               THEN pc' = "failed" /\ exc' = "ResultNotOkayError" /\ UNCHANGED result
               ELSE /\ result' = MangaFromJson(resp.body.data, search_lang)
                    /\ pc' = "done"
                    /\ UNCHANGED exc
    /\ UNCHANGED <<inputs, extv, req, resp, listv, all_chapters, index, chapter_dir,
                   page_index, fsv, printed, faults, run, log>>

\* search_by_title up to the get call
SearchByTitleCall ==
    /\ pc = "start" /\ op = "search_by_title"
    /\ EnterGet(<<"manga">>, TitleParams(arg.title, arg.sort), None)
    /\ log' = Append(log, CallEvent(<<"manga">>, TitleParams(arg.title, arg.sort), None, 0))
    /\ pc' = "search_wait"
    /\ UNCHANGED <<inputs, extv, resp, exc, listv, dlv, fsv, outv, faults, run>>

\* search_by_tags up to the first get call
SearchByTagsCall ==
    /\ pc = "start" /\ op = "search_by_tags"
    /\ EnterGet(<<"manga", "/", "tag">>, EmptyParams, None)
    /\ log' = Append(log, CallEvent(<<"manga", "/", "tag">>, EmptyParams, None, 0))
    /\ pc' = "tags_wait"
    /\ UNCHANGED <<inputs, extv, resp, exc, listv, dlv, fsv, outv, faults, run>>

\* search_by_tags from the tag dictionary to the second get call; the result
\* field of the dictionary is not looked at, its "data" is read at once
SearchByTagsFilter ==
    /\ pc = "tags_wait" /\ gpc \in {"returned", "raised"}
    /\ IF gpc = "raised"
       THEN /\ pc' = "failed" /\ gpc' = "idle"
            /\ UNCHANGED <<exc, req, log>>
       ELSE IF "data" \notin DOMAIN resp.body
       THEN /\ pc' = "failed" /\ gpc' = "idle" /\ exc' = "KeyError"
            /\ UNCHANGED <<req, log>>
       ELSE LET params == TagParams(resp.body, arg.include_tags, arg.exclude_tags, arg.sort)
            IN  /\ EnterGet(<<"manga">>, params, None)
                /\ log' = Append(log, CallEvent(<<"manga">>, params, None, 0))
                /\ pc' = "search_wait"
                /\ UNCHANGED exc
    /\ UNCHANGED <<inputs, extv, resp, listv, dlv, fsv, outv, faults, run>>

\* search_by_title and search_by_tags from .json() of the search on
SearchListReturn ==
    /\ pc = "search_wait" /\ gpc \in {"returned", "raised"}
    /\ gpc' = "idle"
    /\ IF gpc = "raised"
       THEN pc' = "failed" /\ UNCHANGED <<exc, json, result>>
       ELSE /\ json' = resp.body
            /\ IF IsError(resp.body)
               THEN pc' = "failed" /\ exc' = "ResultNotOkayError" /\ UNCHANGED result
               ELSE /\ result' = MangaList(resp.body.data, search_lang)
                    /\ pc' = "done"
                    /\ UNCHANGED exc
    /\ UNCHANGED <<inputs, extv, req, resp, listv, all_chapters, index, chapter_dir,
                   page_index, fsv, printed, faults, run, log>>

(***************************************************************************)
(* MangaChapters.__init__                                                  *)
(***************************************************************************)
\* __init__ up to the get call of search_by_id(self.__manga_id)
Construct ==
    /\ pc = "new"
    /\ EnterGet(<<"manga", "/", manga_id>>, EmptyParams, None)
    /\ log' = Append(log, CallEvent(<<"manga", "/", manga_id>>, EmptyParams, None, 0))
    /\ pc' = "new_wait"
    /\ UNCHANGED <<inputs, extv, resp, exc, listv, dlv, fsv, outv, faults, run>>

\* the rest of search_by_id and the assignment of __manga_obj, whose title
\* the property manga_title returns
Constructed ==
    /\ pc = "new_wait" /\ gpc \in {"returned", "raised"}
    /\ gpc' = "idle"
    /\ IF gpc = "raised"
       THEN pc' = "failed" /\ UNCHANGED <<exc, json, manga_title, log>>
       ELSE IF IsError(resp.body)
       THEN /\ pc' = "failed" /\ exc' = "ResultNotOkayError" /\ json' = resp.body
            /\ UNCHANGED <<manga_title, log>>
       ELSE /\ manga_title' = MangaFromJson(resp.body.data, preferred_lang).title
            /\ log' = Append(log, [ev |-> "constructed", pos |-> 0])
            /\ pc' = "start"
            /\ UNCHANGED <<exc, json>>
    /\ UNCHANGED <<op, arg, proxies, manga_id, feed, extv, req, resp, listv, all_chapters,
                   index, chapter_dir, page_index, fsv, outv, faults, run>>

\* the operations a caller may go on with
LaterOperations ==
    { [op |-> "all", arg |-> [number |-> None, datasaver |-> FALSE, path |-> None]],
      [op |-> "download_chapter_by_number",
       arg |-> [number |-> "10", datasaver |-> FALSE, path |-> None]] }

\* the caller makes another operation with the instance it has constructed
\* faulty variant: every operation looks the manga up again
AgainLooksUp ==
    /\ pc \in {"done", "failed"} /\ run < MaxRuns
    /\ \E i \in 1..Len(log) : log[i].ev = "constructed"
    /\ \E o \in LaterOperations : op' = o.op /\ arg' = o.arg
    /\ pc' = "new" /\ run' = run + 1
    /\ exc' = "none" /\ result' = None
    /\ UNCHANGED <<proxies, manga_id, manga_title, feed, extv, gpc, req, resp, listv, dlv,
                   fsv, printed, faults, log>>
Again ==
    /\ pc \in {"done", "failed"} /\ run < MaxRuns
    /\ \E i \in 1..Len(log) : log[i].ev = "constructed"
    /\ \E o \in LaterOperations : op' = o.op /\ arg' = o.arg
    /\ pc' = "start" /\ run' = run + 1
    /\ exc' = "none" /\ result' = None
    /\ UNCHANGED <<proxies, manga_id, manga_title, feed, extv, gpc, req, resp, listv, dlv,
                   fsv, printed, faults, log>>

(***************************************************************************)
(* main.py                                                                 *)
(***************************************************************************)
WHAT_IS_THE_MANGAS_NAME == "Berserk"

\* str.casefold on the titles of the catalog
Casefold(t) ==
    CASE t = "Berserk" -> "berserk"
      [] t = "BERSERK" -> "berserk"
      [] t = "Berserk Max" -> "berserk max"
      [] t = "Guts" -> "guts"
      [] OTHER -> t

\* the for loop over manga_search, from position i on
RECURSIVE ScanTitles(_, _)
ScanTitles(manga_search, i) ==
    IF i > Len(manga_search) THEN [outcome |-> "none"]
    ELSE IF manga_search[i].title = None THEN [outcome |-> "AttributeError"]
    ELSE IF Casefold(manga_search[i].title) = Casefold(WHAT_IS_THE_MANGAS_NAME)
    THEN [outcome |-> "matched", manga |-> manga_search[i]]
    ELSE ScanTitles(manga_search, i + 1)

\* MangaSearch().search_by_title(WHAT_IS_THE_MANGAS_NAME) up to the get call
MainSearch ==
    /\ pc = "main"
    /\ EnterGet(<<"manga">>, TitleParams(WHAT_IS_THE_MANGAS_NAME, EmptyParams), None)
    /\ log' = Append(log, CallEvent(<<"manga">>,
                                    TitleParams(WHAT_IS_THE_MANGAS_NAME, EmptyParams),
                                    None, 0))
    /\ pc' = "main_wait"
    /\ UNCHANGED <<inputs, extv, resp, exc, listv, dlv, fsv, outv, faults, run>>

\* the rest of search_by_title, the loop over its result and, on a match,
\* the call of MangaChapters(manga_matched.id).download_all()
MainMatch ==
    /\ pc = "main_wait" /\ gpc \in {"returned", "raised"}
    /\ gpc' = "idle"
    /\ IF gpc = "raised"
       THEN pc' = "failed" /\ UNCHANGED <<exc, json, result, op, arg, manga_id>>
       ELSE IF IsError(resp.body)
       THEN /\ pc' = "failed" /\ exc' = "ResultNotOkayError" /\ json' = resp.body
            /\ UNCHANGED <<result, op, arg, manga_id>>
       ELSE /\ result' = MangaList(resp.body.data, search_lang)
            /\ UNCHANGED json
            /\ LET scan == ScanTitles(result', 1) IN
               CASE scan.outcome = "AttributeError" ->
                      /\ pc' = "failed" /\ exc' = "AttributeError"
                      /\ UNCHANGED <<op, arg, manga_id>>
                 [] scan.outcome = "matched" ->
                      /\ manga_id' = scan.manga.id
                      /\ op' = "download_all"
                      /\ arg' = [number |-> None, datasaver |-> FALSE, path |-> None]
                      /\ pc' = "new"
                      /\ UNCHANGED exc
                 [] OTHER ->
                      /\ pc' = "done"
                      /\ UNCHANGED <<exc, op, arg, manga_id>>
    /\ UNCHANGED <<proxies, manga_title, feed, extv, req, resp, listv, all_chapters, index,
                   chapter_dir, page_index, fsv, printed, faults, run, log>>

(***************************************************************************)
(* The default arguments shared by all calls                               *)
(***************************************************************************)
\* the default objects d after operation o has run with arguments a: every
\* operation builds new dicts and lists from its arguments and binds its
\* local names to them; none writes into an argument
\* faulty variant: search_by_title adds the title to its sort argument and
\* sends that
SharedAfterInPlace(d, o, a) ==
    IF o = "search_by_title" /\ a.sort = d.sort
    THEN [d EXCEPT !.sort = [title |-> a.title] @@ a.sort]
    ELSE d
SharedAfter(d, o, a) == d

\* the calls a caller can make with every optional argument left out, when
\* the default objects are d
DefaultCalls(d) ==
    { [op |-> "get", pc |-> "start",
       arg |-> [endpoint |-> <<"manga">>, params |-> d.params, override_url |-> None]],
      [op |-> "search_by_id", pc |-> "start", arg |-> [manga_id |-> "m1"]],
      [op |-> "search_by_title", pc |-> "start",
       arg |-> [title |-> "Berserk", sort |-> d.sort]],
      [op |-> "search_by_tags", pc |-> "start",
       arg |-> [include_tags |-> <<"Comedy">>, exclude_tags |-> d.exclude_tags,
                sort |-> d.sort]],
      [op |-> "all", pc |-> "new",
       arg |-> [number |-> None, datasaver |-> FALSE, path |-> None]],
      [op |-> "download_chapter_by_number", pc |-> "new",
       arg |-> [number |-> "10", datasaver |-> FALSE, path |-> None]] }

\* the caller, done with one operation, makes the next call with defaults
NextCall ==
    /\ pc \in {"done", "failed"} /\ run < MaxRuns
    /\ defaults' = SharedAfter(defaults, op, arg)
    /\ \E c \in DefaultCalls(defaults') :
          /\ op' = c.op /\ arg' = c.arg /\ pc' = c.pc
          /\ log' = Append(log, [ev |-> "begin", after |-> op, op |-> c.op, pos |-> 0])
    /\ proxies' = defaults'.proxies
    /\ run' = run + 1 /\ exc' = "none" /\ result' = None
    /\ UNCHANGED <<manga_id, manga_title, feed, uname, search_lang, catalog, prev_log,
                   prev_files, prev_dirs, gpc, req, resp, listv, dlv, fsv, printed, faults>>

\* the caller runs download_all again, with the same instance, on the
\* directory the run before has filled
Rerun ==
    /\ pc = "done" /\ op = "download_all" /\ run < MaxRuns
    /\ prev_log' = log /\ prev_files' = files /\ prev_dirs' = dirs
    /\ pc' = "start" /\ run' = run + 1
    /\ exc' = "none" /\ result' = None /\ log' = << >>
    /\ UNCHANGED <<inputs, uname, search_lang, catalog, defaults, gpc, req, resp, listv,
                   dlv, fsv, printed, faults>>

(***************************************************************************)
(* Initial states                                                          *)
(***************************************************************************)
NoJson == [result |-> "none"]

\* the locals of the operations before any of them has run
Locals ==
    /\ gpc = "idle" /\ req = NoReq /\ resp = NoResp /\ exc = "none"
    /\ list_json_all = << >> /\ chapters_len = 0 /\ mult = 0
    /\ all_chapters = << >> /\ index = 0 /\ json = NoJson
    /\ chapter_dir = None /\ page_index = 0
    /\ dirs = {} /\ files = << >>
    /\ result = None /\ printed = << >>
    /\ faults = 0 /\ run = 1 /\ log = << >>

\* an instance that has been constructed and has run no operation yet
Idle == pc = "start" /\ Locals

\* the default arguments as the def statements create them
NoDefaults ==
    [params |-> EmptyParams, proxies |-> EmptyParams, sort |-> EmptyParams,
     exclude_tags |-> << >>]

ThisMachine ==
    [system |-> "Linux", release |-> "6.1", machine |-> "x86_64", node |-> "host-a"]

\* the state the operations of one instance, run once, do not touch
Defaults ==
    /\ uname = ThisMachine /\ search_lang = preferred_lang /\ catalog = << >>
    /\ prev_log = << >> /\ prev_files = << >> /\ prev_dirs = {}
    /\ defaults = NoDefaults

RECURSIVE SeqsUpTo(_, _)
SeqsUpTo(S, n) ==
    IF n = 0 THEN { << >> }
    ELSE SeqsUpTo(S, n - 1) \cup
         { Append(s, x) : s \in { t \in SeqsUpTo(S, n - 1) : Len(t) = n - 1 }, x \in S }

EndpointTokens == {"/", "at-home", "manga", "__default"}
Endpoints == SeqsUpTo(EndpointTokens, MaxTokens)

InitGet ==
    /\ op = "get"
    /\ arg \in [endpoint : Endpoints,
                params : {EmptyParams, [title |-> "Berserk"]},
                override_url : {None, "https://uploads.mangadex.org"}]
    /\ proxies \in {EmptyParams, [https |-> "http://proxy:8080"]}
    /\ manga_id = "m1" /\ manga_title = "Berserk" /\ feed = << >>
    /\ Idle
    /\ Defaults

NextGet == GetCall \/ GetFirst \/ BasicRateLimiter \/ GetSecond \/ GetReturn

SpecGet == InitGet /\ [][NextGet]_vars

\* the large feeds: item i of N
BigItem(i) == FeedItem("c" \o ToString(i), None, None, ToString(i), 1)

FeedSizes ==
    { n \in { k * PageLimit + d : k \in 0..MaxFeedPages, d \in {-1, 0, 1} } : n >= 0 }

InitList ==
    /\ op = "all"
    /\ arg = [number |-> None, datasaver |-> FALSE, path |-> None]
    /\ proxies = EmptyParams
    /\ manga_id = "m1" /\ manga_title = "Berserk"
    /\ \E n \in FeedSizes : feed = [i \in 1..n |-> BigItem(i)]
    /\ Idle
    /\ Defaults

NextList ==
    \/ ChaptersJsonBegin \/ ChaptersJsonRequest \/ ChaptersJsonResponse \/ AllReturn
    \/ GetFirst \/ BasicRateLimiter \/ GetSecond
    \/ Restart

SpecList == InitList /\ [][NextList]_vars

\* the small feeds: the chapters of Pool at increasing positions
SmallFeeds ==
    { [i \in 1..Cardinality(S) |->
          Pool[CHOOSE k \in S : Cardinality({ x \in S : x < k }) = i - 1]] :
      S \in { T \in SUBSET (1..Len(Pool)) : Cardinality(T) <= MaxChapters } }

InitDl ==
    /\ \/ /\ op = "download_all"
          /\ arg \in [number : {None}, datasaver : BOOLEAN, path : {None, "out"}]
       \/ /\ op = "download_chapter_by_number"
          /\ arg \in [number : {"10", "10.0", "11"}, datasaver : BOOLEAN, path : {None}]
    /\ proxies = EmptyParams
    /\ manga_id = "m1" /\ manga_title = "Berserk"
    /\ feed \in SmallFeeds
    /\ Idle
    /\ Defaults

NextDl ==
    \/ ChaptersJsonBegin \/ ChaptersJsonRequest \/ ChaptersJsonResponse
    \/ GetFirst \/ BasicRateLimiter \/ GetSecond
    \/ DownloadAllBegin \/ DownloadAllChapter \/ DownloadAllDone \/ ByNumberScan
    \/ DownloadResolved \/ DownloadPage \/ DownloadPageWritten \/ DownloadReturn

SpecDl == InitDl /\ [][NextDl]_vars

\* the machines a client may run on
Unames ==
    [system : {"Linux", "Windows"}, release : {"6.1", "10"},
     machine : {"x86_64", "arm64"}, node : {"host-a", "host-b"}]

\* direct calls of get made from any of the machines
InitAgent ==
    /\ op = "get"
    /\ arg \in [endpoint : {<<"manga">>, <<"at-home", "/", "server", "/", "c9">>},
                params : {EmptyParams, [title |-> "Berserk"]},
                override_url : {None}]
    /\ proxies = EmptyParams
    /\ manga_id = "m1" /\ manga_title = "Berserk" /\ feed = << >>
    /\ Idle
    /\ uname \in Unames
    /\ search_lang = preferred_lang /\ catalog = << >>
    /\ prev_log = << >> /\ prev_files = << >> /\ prev_dirs = {}
    /\ defaults = NoDefaults

SpecAgent == InitAgent /\ [][NextGet]_vars

\* listings and downloads of one chapter over the large feeds, next to the
\* downloads over the small ones
InitFeed ==
    \/ InitDl
    \/ /\ \/ /\ op = "all"
             /\ arg = [number |-> None, datasaver |-> FALSE, path |-> None]
          \/ /\ op = "download_chapter_by_number"
             /\ arg \in [number : {"1", "501"}, datasaver : {FALSE}, path : {None}]
       /\ proxies = EmptyParams
       /\ manga_id = "m1" /\ manga_title = "Berserk"
       /\ \E n \in FeedSizes : feed = [i \in 1..n |-> BigItem(i)]
       /\ Idle
       /\ Defaults

NextFeed == NextDl \/ AllReturn

SpecFeed == InitFeed /\ [][NextFeed]_vars

\* download_all into the default directory, run again when it has finished
InitTwice ==
    InitDl /\ op = "download_all" /\ arg.path = None /\ Len(feed) < MaxChapters

NextTwice ==
    \/ ChaptersJsonBegin \/ ChaptersJsonRequest \/ ChaptersJsonResponse
    \/ GetFirst \/ BasicRateLimiter \/ GetSecond
    \/ DownloadAllBegin \/ DownloadAllChapter \/ DownloadAllDone
    \/ DownloadResolved \/ DownloadPage \/ DownloadPageWritten \/ DownloadReturn
    \/ Rerun

SpecTwice == InitTwice /\ [][NextTwice]_vars

MaxAlts == 2

\* the languages a search may prefer, and the title data of the entities
Langs == {"en", "ja", "fr"}
TitleDicts == { EmptyParams, [en |-> "Berserk"], [ja |-> "Beruseruku"] }
AltPool == { [en |-> "Berserk Alt"], [ja |-> "Kenpuu Denki"], [ja |-> "Beruseruku"],
             [en |-> "Berserk EN", ja |-> "Berserk JA"] }

\* the three searches over a catalog of one entity
InitSearch ==
    /\ \/ /\ op = "search_by_id" /\ arg = [manga_id |-> "m1"]
       \/ /\ op = "search_by_title"
          /\ arg \in [title : {"Berserk"}, sort : {EmptyParams, [rating |-> "asc"]}]
       \/ /\ op = "search_by_tags"
          /\ arg \in [include_tags : { <<"Comedy">>, <<"Nope", "Gore">>,
                                       <<"Comedy", "Gore">>, <<"Nope">> },
                      exclude_tags : { << >>, <<"Gore">> },
                      sort : {EmptyParams}]
    /\ proxies = EmptyParams
    /\ manga_id = "m1" /\ manga_title = "Berserk" /\ feed = << >>
    /\ Idle
    /\ uname = ThisMachine
    /\ search_lang \in Langs
    /\ \E t \in TitleDicts : \E a \in SeqsUpTo(AltPool, MaxAlts) :
          catalog = << Entity("m1", t, a) >>
    /\ prev_log = << >> /\ prev_files = << >> /\ prev_dirs = {}
    /\ defaults = NoDefaults

NextSearch ==
    \/ SearchByIdCall \/ SearchByIdReturn
    \/ SearchByTitleCall \/ SearchByTagsCall \/ SearchByTagsFilter \/ SearchListReturn
    \/ GetFirst \/ BasicRateLimiter \/ GetSecond

SpecSearch == InitSearch /\ [][NextSearch]_vars

\* the feeds of one chapter at most
TinyFeeds == { f \in SmallFeeds : Len(f) <= 1 }

\* an instance is constructed and then used for one operation after another
InitCtor ==
    /\ \/ /\ op \in {"all", "download_all"}
          /\ arg = [number |-> None, datasaver |-> FALSE, path |-> None]
       \/ /\ op = "download_chapter_by_number"
          /\ arg = [number |-> "10", datasaver |-> FALSE, path |-> None]
    /\ proxies = EmptyParams
    /\ manga_id = "m1" /\ manga_title = None
    /\ feed \in TinyFeeds
    /\ pc = "new" /\ Locals
    /\ uname = ThisMachine /\ search_lang = preferred_lang
    /\ catalog \in { << >>, << Entity("m1", [ja |-> "Beruseruku"], << >>) >> }
    /\ prev_log = << >> /\ prev_files = << >> /\ prev_dirs = {}
    /\ defaults = NoDefaults

NextCtor == Construct \/ Constructed \/ NextFeed \/ Again

SpecCtor == InitCtor /\ [][NextCtor]_vars

MaxEntities == 2

\* the entities a title search may return: two whose title matches the
\* query when casefolded, one whose title does not, one that has no title
\* in English at all, one whose English alternate title matches
MainEntities ==
    { Entity("m-berserk", [en |-> "Berserk"], << >>),
      Entity("m-upper", [en |-> "BERSERK"], << >>),
      Entity("m-max", [en |-> "Berserk Max"], << >>),
      Entity("m-null", [ja |-> "Beruseruku"], << >>),
      Entity("m-alt", [en |-> "Guts"], << [en |-> "berserk"] >>) }

\* the process entry point
InitMain ==
    /\ op = "main" /\ arg = EmptyParams
    /\ proxies = EmptyParams
    /\ manga_id = None /\ manga_title = None
    /\ feed \in TinyFeeds
    /\ pc = "main" /\ Locals
    /\ uname = ThisMachine /\ search_lang = "en"
    /\ catalog \in SeqsUpTo(MainEntities, MaxEntities)
    /\ prev_log = << >> /\ prev_files = << >> /\ prev_dirs = {}
    /\ defaults = NoDefaults

NextMain ==
    \/ MainSearch \/ MainMatch \/ Construct \/ Constructed
    \/ ChaptersJsonBegin \/ ChaptersJsonRequest \/ ChaptersJsonResponse
    \/ GetFirst \/ BasicRateLimiter \/ GetSecond
    \/ DownloadAllBegin \/ DownloadAllChapter \/ DownloadAllDone
    \/ DownloadResolved \/ DownloadPage \/ DownloadPageWritten \/ DownloadReturn

SpecMain == InitMain /\ [][NextMain]_vars

\* one call after another, each made with defaults
InitDefaults ==
    /\ defaults = NoDefaults
    /\ \E c \in DefaultCalls(defaults) : op = c.op /\ arg = c.arg /\ pc = c.pc
    /\ proxies = defaults.proxies
    /\ manga_id = "m1" /\ manga_title = None
    /\ feed = << Pool[3] >>
    /\ Locals
    /\ uname = ThisMachine /\ search_lang = preferred_lang
    /\ catalog = << Entity("m1", [en |-> "Berserk"], << >>) >>
    /\ prev_log = << >> /\ prev_files = << >> /\ prev_dirs = {}

NextDefaults ==
    \/ GetCall \/ GetReturn
    \/ SearchByIdCall \/ SearchByIdReturn
    \/ SearchByTitleCall \/ SearchByTagsCall \/ SearchByTagsFilter \/ SearchListReturn
    \/ Construct \/ Constructed
    \/ ChaptersJsonBegin \/ ChaptersJsonRequest \/ ChaptersJsonResponse \/ AllReturn
    \/ ByNumberScan \/ DownloadResolved \/ DownloadPage \/ DownloadPageWritten
    \/ DownloadReturn
    \/ GetFirst \/ BasicRateLimiter \/ GetSecond
    \/ NextCall

SpecDefaults == InitDefaults /\ [][NextDefaults]_vars

(***************************************************************************)
(* Properties                                                              *)
(***************************************************************************)
Events(kind) == SelectSeq(log, LAMBDA e : e.ev = kind)
Https == Events("http")
Cooldowns == Events("cooldown")
Calls == Events("call")

\* C1: a get call whose first response is 429 raises nothing, runs the
\* rate-limit recovery once, re-issues the identical request once and returns
\* that second response whatever its status; a first response that is not 429
\* is returned as it is, with no cooldown and no second request.  A get call
\* issues at most two HTTP requests and at most one cooldown; the only error
\* leaving get is a failure of the network, never RateLimitedError.
C1_GetRetriesOnceAfter429 ==
    /\ Len(Https) <= 2 /\ Len(Cooldowns) <= 1
    /\ exc # "RateLimitedError"
    /\ Len(Cooldowns) = 1 => Len(Https) >= 1 /\ Https[1].status = 429
    /\ Len(Https) = 2 =>
          /\ Https[1].status = 429
          /\ Https[2].request = Https[1].request
          /\ <<log[2].ev, log[3].ev, log[4].ev>> = <<"http", "cooldown", "http">>
    /\ pc = "done" =>
          /\ Len(Https) = (IF Https[1].status = 429 THEN 2 ELSE 1)
          /\ Len(Cooldowns) = (IF Https[1].status = 429 THEN 1 ELSE 0)
          /\ result.status_code = Last(Https).status
          /\ result = Serve([endpoint |-> arg.endpoint, params |-> arg.params,
                             override_url |-> arg.override_url],
                            CASE result.status_code = 200 -> "ok"
                              [] result.status_code = 429 -> "429"
                              [] OTHER -> "error")
    /\ pc = "failed" => exc = "ConnectionError" /\ Last(Https).status = 0

\* a get call that got 429 twice has returned the second 429 response
C1_Witness ==
    /\ pc = "done" /\ Len(Https) = 2 /\ Https[2].status = 429
    /\ result.status_code = 429 /\ arg.params # EmptyParams

\* C4: for every endpoint string the recovery cycle blocks for exactly the
\* cooldown of the table, 60 seconds, one sleep of a second per decrement,
\* before the retry is issued.
C4_CooldownBlocksSixtySeconds ==
    \A i \in 1..Len(Cooldowns) : Cooldowns[i].seconds = 60

CeilDiv(a, b) == (a + b - 1) \div b

FeedUrl == api_base_url \o "/manga/" \o manga_id \o "/feed"

\* C2: a listing of a feed of N items calls get ceil((N+1)/500) times for the
\* feed endpoint, with limit 500 and offsets 0, 500, 1000, ... in increasing
\* order, and stops after the first page of fewer than 500 items; every
\* listing starts again at offset 0.
C2_ListingRequestsPerPage ==
    /\ \A i \in 1..Len(Calls) :
          /\ Calls[i].url = FeedUrl
          /\ Calls[i].params.limit = 500
          /\ Calls[i].params.offset = (i - 1) * 500
    /\ Len(Calls) <= CeilDiv(Len(feed) + 1, 500)
    /\ pc = "done" => Len(Calls) = CeilDiv(Len(feed) + 1, 500)

\* the second listing of a feed of exactly 500 items has ended after 2 calls
C2_Witness ==
    /\ pc = "done" /\ run = 2 /\ Len(feed) = 500 /\ Len(Calls) = 2
    /\ Calls[1].params.offset = 0 /\ Len(list_json_all[2].data) = 0

\* C3: the listing returns exactly one chapter record per feed item, in feed
\* order, nothing duplicated or dropped at a page boundary, and the count N.
C3_ListingReturnsFeedInOrder ==
    pc = "done" =>
        /\ result[1] = Len(feed)
        /\ Len(result[2]) = Len(feed)
        /\ \A i \in 1..Len(feed) :
              /\ result[2][i].id = feed[i].id
              /\ result[2][i].number = feed[i].attributes.chapter
              /\ result[2][i].title = feed[i].attributes.title
              /\ result[2][i].volume = feed[i].attributes.volume
              /\ result[2][i].pages = feed[i].attributes.pages

\* a feed of 501 items has been listed over two pages
C3_Witness ==
    /\ pc = "done" /\ Len(feed) = 501 /\ result[1] = 501
    /\ Len(list_json_all) = 2 /\ result[2][501].id = feed[501].id

Writes == Events("write")
EvAt(kind, p) == SelectSeq(log, LAMBDA e : e.ev = kind /\ e.pos = p)

\* the page paths the service holds for chapter id, of the quality asked for
SelectedPages(id) ==
    IF arg.datasaver THEN AtHome(id).chapter.dataSaver ELSE AtHome(id).chapter.data

\* the last non-empty dot-delimited segment of page path p
LastSegment(p) ==
    LET last == CHOOSE i \in 1..Len(p) : p[i] # "." /\ \A k \in (i + 1)..Len(p) : p[k] = "."
        from == CHOOSE i \in 1..last :
                    /\ \A k \in i..last : p[k] # "."
                    /\ (i = 1 \/ p[i - 1] = ".")
    IN  Join(SubSeq(p, from, last))

\* the directory of a chapter record: {base}/{number}: {title}, or {base}/{number}
DirectoryOf(c) ==
    (IF arg.path = None THEN "./" \o manga_title ELSE arg.path) \o "/" \o
    (IF c.title = None THEN c.number ELSE c.number \o ": " \o c.title)

ResolveUrl(id) == api_base_url \o "/at-home/server/" \o id

PageUrl(id, p) ==
    AtHome(id).baseUrl \o "/" \o (IF arg.datasaver THEN "data-saver" ELSE "data")
    \o "/" \o AtHome(id).chapter.hash \o "/" \o Join(p)

\* the download of the chapter at position p has run to its end
Downloaded(p) ==
    \/ op = "download_chapter_by_number" /\ pc = "done" /\ index + 1 = p
       /\ EvAt("call", p) # << >>
    \/ op = "download_all" /\ p <= index /\ pc \in {"dl_loop", "resolve_wait", "page_loop",
                                                   "page_wait", "done", "failed"}

\* the status of the response get returned for the call of url at position p
ReturnedStatus(url, p) ==
    Last(SelectSeq(log, LAMBDA e : e.ev = "http" /\ e.pos = p /\ e.request.url = url)).status

\* C5: _download of a chapter whose resolve succeeds makes one resolve get
\* for at-home/server/{id}, then one get per selected page path in index
\* order, each for {data|data-saver}/{hash}/{p_i} against the session's base
\* URL, and writes the i-th response's body to {directory}/{i+1}.{ext_i}, ext_i
\* the last non-empty dot-delimited segment of p_i; a page is requested again
\* only by get's single retry after a 429.
C5_DownloadRequestsAndFiles ==
    \A p \in 1..Len(all_chapters) :
        LET c == all_chapters[p]
            pages == SelectedPages(c.id)
            calls == EvAt("call", p)
            writes == EvAt("write", p)
            https == EvAt("http", p)
        IN  /\ Len(calls) <= 1 + Len(pages)
            /\ Len(calls) >= 1 => calls[1].url = ResolveUrl(c.id)
            /\ \A j \in 2..Len(calls) :
                  /\ calls[j].url = PageUrl(c.id, pages[j - 1])
                  /\ calls[j].params = EmptyParams
                  /\ ReturnedStatus(ResolveUrl(c.id), p) = 200
            /\ Len(writes) <= Len(pages)
            /\ \A j \in 1..Len(writes) :
                  /\ writes[j].path = DirectoryOf(c) \o "/" \o ToString(j) \o "."
                                      \o LastSegment(pages[j])
                  /\ writes[j].status = ReturnedStatus(PageUrl(c.id, pages[j]), p)
                  /\ writes[j].content =
                        (IF writes[j].status = 200
                         THEN "image of " \o PageUrl(c.id, pages[j])
                         ELSE "error page " \o ToString(writes[j].status))
            /\ (Len(log) > 0 /\ Last(log).ev = "write" /\ Last(log).pos = p)
                  => files[Last(log).path] = Last(log).content
            /\ \A u \in { https[j].request.url : j \in 1..Len(https) } :
                  LET sent == SelectSeq(https, LAMBDA e : e.request.url = u)
                  IN  Len(sent) <= 2 /\ (Len(sent) = 2 => sent[1].status = 429)
            /\ Downloaded(p) => Len(calls) = 1 + Len(pages) /\ Len(writes) = Len(pages)

\* chapter c10b has been downloaded in reduced quality with one page retried
C5_Witness ==
    /\ pc = "done" /\ arg.datasaver /\ Len(all_chapters) >= index + 1
    /\ all_chapters[index + 1].id = "c10b"
    /\ Len(EvAt("write", index + 1)) = 2
    /\ Len(EvAt("http", index + 1)) = 4
    /\ "./Berserk/10/2.t2" \in DOMAIN files

\* C6: the download pipeline writes to the file system only on a successful
\* page fetch: a page file it created or overwrote holds the body of a
\* successful fetch of that page, and a failed fetch leaves no new file.
C6_FilesOnlyFromSuccessfulFetch ==
    pc \in {"page_loop", "dl_loop", "done", "failed"} =>
        \A f \in DOMAIN files :
            \E i \in 1..Len(Writes) :
                /\ Writes[i].path = f
                /\ Writes[i].status = 200
                /\ files[f] = Writes[i].content

\* C7: a resolve response with result = "error" makes _download raise
\* ResultNotOkayError carrying that response; the chapter directory is not
\* created, no page is requested and no file is written for that chapter.
C7_ResolveErrorLeavesNothing ==
    (pc = "failed" /\ exc = "ResultNotOkayError" /\ Len(all_chapters) > 0) =>
        /\ json = resp.body /\ json.result = "error"
        /\ gpc = "idle"
        /\ Len(EvAt("call", index + 1)) = 1
        /\ EvAt("call", index + 1)[1].url = ResolveUrl(all_chapters[index + 1].id)
        /\ EvAt("mkdir", index + 1) = << >>
        /\ EvAt("open", index + 1) = << >>
        /\ EvAt("write", index + 1) = << >>
        /\ dirs = { log[i].path : i \in { k \in 1..Len(log) : log[k].ev = "mkdir" } }
        /\ DOMAIN files = { log[i].path : i \in { k \in 1..Len(log) : log[k].ev = "open" } }

\* the resolve of the second chapter of a download_all reported an error
C7_Witness ==
    /\ pc = "failed" /\ exc = "ResultNotOkayError" /\ index = 1
    /\ json.result = "error" /\ Cardinality(dirs) = 1
    /\ all_chapters[2].id = "c9" /\ DirectoryOf(all_chapters[2]) \notin dirs

\* the get calls of the resolve step, in the order made
ResolveCalls ==
    SelectSeq(Calls, LAMBDA e : \E i \in 1..Len(feed) : e.url = ResolveUrl(feed[i].id))

FullyDownloaded(p) ==
    /\ Len(EvAt("call", p)) = 1 + Len(SelectedPages(feed[p].id))
    /\ Len(EvAt("write", p)) = Len(SelectedPages(feed[p].id))

\* C8: download_all makes one listing and then downloads the chapters in
\* listing order, one after the other, each resolved once.  When the download
\* of the chapter at position i fails the error leaves download_all, the
\* chapters before i are fully downloaded and nothing is requested or written
\* for a later chapter; when none fails every listed chapter is downloaded.
C8_DownloadAllInOrderAbortsOnFailure ==
    op = "download_all" =>
        /\ Len(SelectSeq(Calls, LAMBDA e : e.url = FeedUrl)) <= 1
        /\ Len(log) > 0 => log[1].ev = "call" /\ log[1].url = FeedUrl
        /\ \A a, b \in 1..Len(log) : a < b => log[a].pos <= log[b].pos
        /\ \A e \in { log[i] : i \in 1..Len(log) } : e.pos <= Len(feed)
        /\ \A j \in 1..Len(ResolveCalls) :
              ResolveCalls[j].url = ResolveUrl(feed[j].id) /\ ResolveCalls[j].pos = j
        /\ exc # "none" => pc = "failed" \/ gpc = "raised"
        /\ pc \in {"dl_loop", "resolve_wait", "page_loop", "page_wait"} =>
              /\ exc = "none" \/ gpc = "raised"
              /\ \A p \in 1..index : FullyDownloaded(p)
        /\ (pc = "failed" /\ Len(ResolveCalls) > 0) =>
              /\ exc \in {"ResultNotOkayError", "ConnectionError"}
              /\ Len(ResolveCalls) = index + 1
              /\ \A p \in 1..index : FullyDownloaded(p)
              /\ \A e \in { log[i] : i \in 1..Len(log) } : e.pos <= index + 1
        /\ pc = "done" =>
              /\ exc = "none"
              /\ Len(ResolveCalls) = Len(feed)
              /\ \A p \in 1..Len(feed) : FullyDownloaded(p)
              /\ Last(printed).line = "downloaded all"

\* the second of three chapters failed after the first was downloaded
C8_Witness ==
    /\ op = "download_all" /\ pc = "failed" /\ Len(feed) = 3 /\ index = 1
    /\ Len(ResolveCalls) = 2 /\ Len(EvAt("write", 1)) > 0
    /\ Len(EvAt("open", 2)) > 0

\* C9: within one run of download_all no two page writes target the same
\* file path: no file written for one chapter is overwritten by a write for
\* another chapter of the run.
C9_WritesKeyedByUniquePaths ==
    op = "download_all" =>
        \A a, b \in 1..Len(Writes) : a # b => Writes[a].path # Writes[b].path

\* the positions of the feed items whose chapter-number label equals arg.number
Matching == { i \in 1..Len(feed) : feed[i].attributes.chapter = arg.number }
FirstMatching == CHOOSE i \in Matching : \A k \in Matching : i <= k

\* C10: download_chapter_by_number(n) compares n with the chapter-number
\* labels by exact string equality in listing order: with a match it downloads
\* the first matching chapter and no other; without one it makes no resolve or
\* page request, writes nothing and reports not-found.
C10_ByNumberExactFirstMatch ==
    op = "download_chapter_by_number" =>
        IF Matching = {}
        THEN /\ \A i \in 1..Len(log) : log[i].pos = 0
             /\ \A i \in 1..Len(Calls) : Calls[i].url = FeedUrl
             /\ dirs = {} /\ DOMAIN files = {}
             /\ pc = "done" =>
                   printed = << [line |-> "could not find", number |-> arg.number] >>
        ELSE /\ \A i \in 1..Len(log) : log[i].pos \in {0, FirstMatching}
             /\ Len(ResolveCalls) <= 1
             /\ \A j \in 1..Len(ResolveCalls) :
                   ResolveCalls[j].url = ResolveUrl(feed[FirstMatching].id)
             /\ dirs \subseteq { DirectoryOf(Chapter(feed[FirstMatching])) }
             /\ pc = "done" =>
                   /\ Len(ResolveCalls) = 1
                   /\ FullyDownloaded(FirstMatching)
                   /\ printed = << [line |-> "matched", number |-> arg.number],
                                   [line |-> "Successfully downloaded chapter"] >>

\* of the chapters labelled "10.1", "9", "10" only "10" has been downloaded
C10_Witness ==
    /\ op = "download_chapter_by_number" /\ arg.number = "10" /\ pc = "done"
    /\ Len(feed) = 3
    /\ { feed[i].attributes.chapter : i \in 1..3 } = {"9", "10", "10.1"}
    /\ Len(Writes) = 1 /\ Writes[1].pos = FirstMatching
    /\ feed[FirstMatching].id = "c10"

\* the label "10.0" is no match for "10": not-found has been reported
C10_WitnessNoMatch ==
    /\ op = "download_chapter_by_number" /\ arg.number = "10" /\ pc = "done"
    /\ \E i \in 1..Len(feed) : feed[i].attributes.chapter = "10.0"
    /\ Matching = {} /\ printed[1].line = "could not find"

\* C16: the identifying header of every request is determined by the product
\* name, the operating-system family, the operating-system version and the
\* machine architecture alone: a client on any machine that agrees with this
\* one on those values sends the identical header, whatever its host name.
C16_UserAgentIgnoresHostName ==
    \A i \in 1..Len(Https) : \A u \in Unames :
        (u.system = uname.system /\ u.release = uname.release
         /\ u.machine = uname.machine)
        => Https[i].request.headers = UserAgent(u)

\* C17: a direct get call whose first attempt has status 429 ends by raising
\* RateLimitedError to its caller.
C17_FirstAttempt429RaisesRateLimited ==
    (op = "get" /\ pc \in {"done", "failed"}
     /\ Len(Https) >= 1 /\ Https[1].status = 429)
    => (pc = "failed" /\ exc = "RateLimitedError")

\* the network events of the run, in order
Net == SelectSeq(log, LAMBDA e : e.ev \in {"call", "http", "cooldown"})

\* a response with status 429 to the first attempt of a get call
FirstAttempt429(i) ==
    /\ log[i].ev = "http" /\ log[i].status = 429
    /\ i > 1 /\ log[i - 1].ev = "call"

\* C19: execution is sequential.  At most one request is outstanding: a get
\* call is entered only when the exchange of the call before it is over, and
\* while a call is in progress the last thing that happened belongs to it.
\* From a first response with status 429 until the same request has been sent
\* again, the only thing that happens is the cooldown: no other request (page,
\* chapter or feed) and no file write.
C19_SequentialPipeline ==
    /\ gpc \in {"first", "limited", "second"}
       => /\ log # << >>
          /\ Last(log).ev \in {"call", "http", "cooldown"}
          /\ Last(log).ev = "call"
             => (gpc = "first" /\ Last(log).url = HttpRequest(req).url)
          /\ Last(log).ev = "http"
             => (gpc = "limited" /\ Last(log).status = 429
                 /\ Last(log).request = HttpRequest(req))
          /\ Last(log).ev = "cooldown" => gpc = "second"
    /\ \A i \in 1..Len(Net) :
          Net[i].ev = "call" /\ i > 1
          => /\ Net[i - 1].ev = "http"
             /\ Net[i - 1].status = 429 => (i > 2 /\ Net[i - 2].ev = "cooldown")
    /\ \A i \in 1..Len(log) :
          /\ (log[i].ev = "call" /\ i < Len(log))
             => /\ log[i + 1].ev = "http"
                /\ log[i + 1].request.url = log[i].url
                /\ log[i + 1].request.params = log[i].params
          /\ FirstAttempt429(i)
             => /\ i + 1 <= Len(log) => log[i + 1].ev = "cooldown"
                /\ i + 2 <= Len(log)
                   => (log[i + 2].ev = "http" /\ log[i + 2].request = log[i].request)
          /\ log[i].ev = "write"
             => (i > 1 /\ log[i - 1].ev = "http" /\ log[i - 1].pos = log[i].pos)

\* download_all of two chapters or more was rate limited on a page of the
\* first chapter and went on to the end
C19_Witness ==
    /\ op = "download_all" /\ pc = "done" /\ Len(all_chapters) >= 2
    /\ \E i \in 1..Len(log) :
          /\ FirstAttempt429(i) /\ log[i].pos = 1
          /\ log[i].request.url # ResolveUrl(all_chapters[1].id)
          /\ \E k \in (i + 3)..Len(log) : log[k].ev = "call" /\ log[k].pos = 2

\* the declared page count of the chapter at position p and the number of
\* page paths the resolve step returns for it
Declared(p) == all_chapters[p].pages
Resolved(p) == Len(SelectedPages(all_chapters[p].id))

\* C15: the page count a chapter record declares has no part in its
\* download.  Whatever the declared count c and the number k of page paths the
\* resolve step returns (c < k, c = k, c > k, k = 0), a download that has run
\* to its end has written exactly k files, numbered 1..k in the chapter's
\* directory; and a download fails only on a failure of the network or on a
\* response with result = "error", never on the mismatch.
C15_PageCountMismatchTolerated ==
    /\ exc \in {"none", "ConnectionError", "ResultNotOkayError"}
    /\ (pc = "failed" /\ exc = "ResultNotOkayError") => IsError(resp.body)
    /\ (pc = "failed" /\ exc = "ConnectionError") => Last(Https).status = 0
    /\ \A p \in 1..Len(all_chapters) :
          Downloaded(p) =>
              LET writes == EvAt("write", p)
                  pages == SelectedPages(all_chapters[p].id)
              IN  /\ Len(writes) = Resolved(p)
                  /\ \A j \in 1..Resolved(p) :
                        writes[j].path = DirectoryOf(all_chapters[p]) \o "/"
                                         \o ToString(j) \o "." \o LastSegment(pages[j])

\* download_all has finished a feed holding a chapter that declares fewer
\* pages than it has, one that declares more, and one that has no page at all
\* but declares two
C15_Witness ==
    /\ op = "download_all" /\ pc = "done" /\ exc = "none"
    /\ \E p \in 1..Len(all_chapters) : Declared(p) < Resolved(p)
    /\ \E p \in 1..Len(all_chapters) : Declared(p) > Resolved(p) /\ Resolved(p) > 0
    /\ \E p \in 1..Len(all_chapters) : Declared(p) > 0 /\ Resolved(p) = 0
    /\ \A p \in 1..Len(all_chapters) : Len(EvAt("write", p)) = Resolved(p)

\* event i of the history is a feed response with result = "error" that get
\* returned to the listing
FeedErrorAt(i) ==
    /\ log[i].ev = "http" /\ log[i].request.url = FeedUrl
    /\ log[i].status \notin {0, 200}
    /\ ~FirstAttempt429(i)

\* C12: a feed response with result = "error", for the first page or a later
\* one, is the last thing the run does on the network: the listing raises
\* ResultNotOkayError for that response, no further feed page is requested,
\* nothing (no partial chapter sequence) is returned, and the download built
\* on the listing resolves no chapter, requests no page and creates or writes
\* nothing.
C12_FeedErrorStopsListing ==
    \A i \in 1..Len(log) :
        FeedErrorAt(i) =>
            /\ i = Len(log)
            /\ \/ pc = "feed_wait" /\ gpc = "returned"
               \/ /\ pc = "failed" /\ exc = "ResultNotOkayError" /\ gpc = "idle"
                  /\ IsError(resp.body)
                  /\ resp.body.errors[1].status = log[i].status
            /\ result = None /\ all_chapters = << >>
            /\ \A k \in 1..Len(Calls) :
                  /\ Calls[k].url = FeedUrl
                  /\ Calls[k].params.offset = (k - 1) * PageLimit
            /\ Len(list_json_all) = Len(Calls) - 1
            /\ dirs = {} /\ files = << >> /\ printed = << >>

\* the second feed page of a download by chapter number came back with
\* result = "error" after a full first page
C12_Witness ==
    /\ op = "download_chapter_by_number" /\ pc = "failed"
    /\ exc = "ResultNotOkayError"
    /\ Len(list_json_all) = 1 /\ Len(list_json_all[1].data) = PageLimit
    /\ Len(Calls) = 2 /\ FeedErrorAt(Len(log))

\* the run in progress repeats a finished run and gets the same answers
Repeating ==
    /\ run > 1
    /\ \A k \in 1..Len(Answers(log)) :
          k <= Len(Answers(prev_log)) /\ Answers(log)[k] = Answers(prev_log)[k]

\* C14: download_all run a second time on the directory a finished run has
\* filled, the service answering every request as in the first run, ends
\* without error with exactly the files and directories of the first run and
\* the same bytes in each file; every file has been written again in place, at
\* no time is there a file or directory the first run did not leave, and no
\* directory is created.
C14_DownloadAllIdempotent ==
    Repeating =>
        /\ pc # "failed"
        /\ DOMAIN files = DOMAIN prev_files /\ dirs = prev_dirs
        /\ Events("mkdir") = << >>
        /\ pc = "done" =>
              /\ files = prev_files
              /\ Answers(log) = Answers(prev_log)
              /\ \A f \in DOMAIN files :
                    \E i \in 1..Len(Writes) :
                        /\ Writes[i].path = f /\ Writes[i].content = prev_files[f]
                        /\ \A k \in (i + 1)..Len(Writes) : Writes[k].path # f

\* the second run has finished over a directory of three files or more, one
\* of which the first run got only after a 429
C14_Witness ==
    /\ run = 2 /\ pc = "done" /\ Repeating
    /\ Cardinality(DOMAIN files) >= 3 /\ Len(Writes) >= 3
    /\ Len(Cooldowns) >= 1
    /\ files = prev_files

\* the catalog entity a finished search has turned into a Manga, and the
\* Manga it made of it
Searched == catalog[1]
Found == IF op = "search_by_id" THEN result ELSE result[1]

\* the positions of the alternate titles given in language l
InLang(alts, l) == { i \in 1..Len(alts) : l \in DOMAIN alts[i] }

\* C13: the title of a Manga made from an entity, for the preferred language
\* L, is the title in L of the first entry of the entity's alternate-title
\* list that has a title in L, when there is such an entry (also when the
\* entity has an English title, and also for L = "en"); otherwise the
\* entity's English title when it has one; otherwise null.
C13_TitleResolution ==
    (pc = "done" /\ op \in {"search_by_id", "search_by_title", "search_by_tags"}) =>
        LET alts == Searched.attributes.altTitles
            m == InLang(alts, search_lang)
        IN  /\ m # {} =>
                 Found.title = alts[CHOOSE i \in m : \A k \in m : i <= k][search_lang]
            /\ (m = {} /\ "en" \in DOMAIN Searched.attributes.title) =>
                 Found.title = Searched.attributes.title["en"]
            /\ (m = {} /\ "en" \notin DOMAIN Searched.attributes.title) =>
                 Found.title = None

\* a search by id preferring Japanese has found an entity with an English
\* title and two Japanese alternates, the first of which it took
C13_Witness ==
    /\ pc = "done" /\ op = "search_by_id" /\ search_lang = "ja"
    /\ Searched.attributes.title = [en |-> "Berserk"]
    /\ Searched.attributes.altTitles = << [ja |-> "Kenpuu Denki"], [ja |-> "Beruseruku"] >>
    /\ result.title = "Kenpuu Denki"

\* C11: in every catalog search operation a response whose body has
\* result = "error", to any request of the operation, the tag-dictionary
\* fetch included, is the last request of the operation and makes it raise
\* ResultNotOkayError carrying that body, hence the status, title and detail
\* of its first error; no other error is raised in its place.
C11_SearchErrorRaisesNotOkay ==
    (op \in {"search_by_id", "search_by_title", "search_by_tags"}
     /\ gpc = "idle" /\ Len(Https) >= 1
     /\ Last(Https).status \notin {0, 200}) =>
        /\ pc = "failed" /\ exc = "ResultNotOkayError"
        /\ json = resp.body /\ IsError(json)
        /\ json.errors[1].status = Last(Https).status
        /\ Last(log).ev = "http"

LookupUrl == api_base_url \o "/manga/" \o manga_id

\* the status of the response get returned for the i-th call of the history,
\* 0 when get raised and -1 while the call is in progress
Returned(i) ==
    LET at == CHOOSE k \in 1..Len(log) :
                  log[k].ev = "call"
                  /\ Cardinality({ j \in 1..k : log[j].ev = "call" }) = i
        next == IF \E k \in (at + 1)..Len(log) : log[k].ev \notin {"http", "cooldown"}
                THEN CHOOSE k \in (at + 1)..Len(log) :
                         /\ log[k].ev \notin {"http", "cooldown"}
                         /\ \A j \in (at + 1)..(k - 1) : log[j].ev \in {"http", "cooldown"}
                ELSE Len(log) + 1
    IN  IF next = at + 1 \/ (next = Len(log) + 1 /\ gpc \in {"first", "limited", "second"})
        THEN -1
        ELSE log[next - 1].status

\* C20: the requests made through a MangaChapters instance begin with one
\* lookup of manga/{id}, made by the constructor, and hold no other lookup,
\* however many listing and download operations follow; a feed, resolve or
\* page request is made only after the lookup has come back without error;
\* a lookup whose response has result = "error" makes construction raise
\* ResultNotOkayError, and no other request is ever made.
C20_OneLookupAtConstruction ==
    /\ Calls # << >> => Calls[1].url = LookupUrl
    /\ \A i \in 2..Len(Calls) : Calls[i].url # LookupUrl /\ Returned(1) = 200
    /\ (Calls # << >> /\ Returned(1) \notin {-1, 0, 200}) =>
          /\ Len(Calls) = 1
          /\ \/ pc = "new_wait" /\ gpc = "returned"
             \/ pc = "failed" /\ exc = "ResultNotOkayError" /\ IsError(json)
          /\ dirs = {} /\ files = << >> /\ run = 1

\* a second operation has finished with the instance: the requests made are
\* the lookup, two feed requests or more, a resolve and a page
C20_Witness ==
    /\ run = 2 /\ pc = "done"
    /\ Len(Calls) >= 5
    /\ Cardinality({ i \in 1..Len(Calls) : Calls[i].url = LookupUrl }) = 1
    /\ Cardinality({ i \in 1..Len(Calls) : Calls[i].url = FeedUrl }) >= 2
    /\ Len(Writes) >= 1

\* the resolved titles of the entities the title search returned, in
\* server order, and the positions of those that match the query
TitleAt(i) == MangaFromJson(catalog[i], "en").title
MatchingTitles ==
    { i \in 1..Len(catalog) :
        /\ TitleAt(i) # None
        /\ Casefold(TitleAt(i)) = Casefold(WHAT_IS_THE_MANGAS_NAME) }

\* the title search of the entry point has returned its entities and the
\* loop over them is over
Scanned ==
    /\ pc \notin {"main", "main_wait"}
    /\ ~(pc = "failed" /\ Len(Calls) = 1
         /\ exc \in {"ResultNotOkayError", "ConnectionError"})

\* C18: once the title search of the entry point has returned its entities,
\* null titles among them or not, the flow goes on with the first entity
\* whose casefolded title equals the casefolded query, and every later
\* request is made for that entity; when no entity matches, the flow is over
\* without an error, having made no other request and written nothing.
C18_EntryPointSelectsFirstMatch ==
    Scanned =>
        /\ exc # "AttributeError"
        /\ MatchingTitles # {} =>
              /\ manga_id = catalog[CHOOSE i \in MatchingTitles :
                                        \A k \in MatchingTitles : i <= k].id
              /\ op = "download_all"
              /\ Len(Calls) >= 2 => Calls[2].url = LookupUrl
              /\ \A i \in 3..Len(Calls) :
                    \/ Calls[i].url = FeedUrl
                    \/ \E p \in 1..Len(all_chapters) :
                          \/ Calls[i].url = ResolveUrl(all_chapters[p].id)
                          \/ \E q \in 1..Len(SelectedPages(all_chapters[p].id)) :
                                Calls[i].url = PageUrl(all_chapters[p].id,
                                                       SelectedPages(all_chapters[p].id)[q])
        /\ MatchingTitles = {} =>
              /\ pc = "done" /\ exc = "none"
              /\ Len(Calls) = 1 /\ dirs = {} /\ files = << >>

\* the ids of the dictionary tags whose English name is one of names, in
\* dictionary order
IdsNamed(names) ==
    LET hit == { i \in 1..Len(TagDictionary) :
                   \E k \in 1..Len(names) :
                       names[k] = TagDictionary[i].attributes.name["en"] }
    IN  [n \in 1..Cardinality(hit) |->
            TagDictionary[CHOOSE i \in hit :
                              Cardinality({ j \in hit : j < i }) = n - 1].id]

\* C21: search_by_tags makes two get calls and no more: the first for
\* manga/tag without parameters, the second for manga, made whenever the
\* dictionary has come back, whatever the names asked for.  The second sends
\* as includedTags[] (excludedTags[]) the ids of the dictionary tags whose
\* English name is in the caller's include (exclude) list, in dictionary
\* order: a name the dictionary does not hold gives no id and no error, and
\* when no include name is held the inclusion filter is sent empty.  A search
\* that has returned has made both calls.
C21_TagSearchTwoSteps ==
    op = "search_by_tags" =>
        /\ Len(Calls) <= 2
        /\ exc \in {"none", "ConnectionError", "ResultNotOkayError", "KeyError"}
        /\ Len(Calls) >= 1 =>
              Calls[1].url = api_base_url \o "/manga/tag" /\ Calls[1].params = EmptyParams
        /\ Len(Calls) >= 2 =>
              /\ Returned(1) = 200
              /\ Calls[2].url = api_base_url \o "/manga"
              /\ Calls[2].params["includedTags[]"] = IdsNamed(arg.include_tags)
              /\ Calls[2].params["excludedTags[]"] = IdsNamed(arg.exclude_tags)
              /\ DOMAIN Calls[2].params =
                    {"includedTags[]", "excludedTags[]"}
                    \cup { "order[" \o k \o "]" : k \in DOMAIN arg.sort }
        /\ (Len(Calls) = 1 /\ Returned(1) = 200) => pc = "tags_wait"
        /\ pc = "done" => Len(Calls) = 2 /\ Returned(2) = 200

\* a search including Comedy and Gore has returned: the ids were sent in the
\* order of the dictionary, Gore's first and both Comedy tags after it
C21_Witness ==
    /\ op = "search_by_tags" /\ pc = "done"
    /\ arg.include_tags = <<"Comedy", "Gore">> /\ arg.exclude_tags = <<"Gore">>
    /\ Calls[2].params["includedTags[]"] = <<"tag-1", "tag-2", "tag-4">>
    /\ Calls[2].params["excludedTags[]"] = <<"tag-1">>

\* the operation event i of the history belongs to, and the number of get
\* calls that operation had made up to event i
OpAt(i) ==
    IF \E k \in 1..i : log[k].ev = "begin"
    THEN log[CHOOSE k \in 1..i : log[k].ev = "begin"
                                 /\ \A j \in (k + 1)..i : log[j].ev # "begin"].op
    ELSE IF \E k \in 1..Len(log) : log[k].ev = "begin"
    THEN log[CHOOSE k \in 1..Len(log) : log[k].ev = "begin"
                                        /\ \A j \in 1..(k - 1) : log[j].ev # "begin"].after
    ELSE op
CallNo(i) ==
    Cardinality({ k \in 1..i : log[k].ev = "call"
                               /\ \A j \in k..i : log[j].ev # "begin" })

\* what a call made with defaults sends when the default objects are empty
SentWithDefaults(o, n, url) ==
    CASE o = "search_by_title" -> [title |-> "Berserk"]
      [] o = "search_by_tags" /\ n = 2 ->
            ("includedTags[]" :> <<"tag-2", "tag-4">>) @@ ("excludedTags[]" :> << >>)
      [] o \in {"all", "download_chapter_by_number"} /\ url = FeedUrl ->
            [translatedLanguage |-> "en", limit |-> PageLimit,
             offset |-> (n - 2) * PageLimit]
      [] OTHER -> EmptyParams

\* C22: the objects the default arguments are bound to are empty after any
\* sequence of calls made with defaults, and every get call of such a
\* sequence carries the parameters, and every request the proxies, that the
\* same call carries when it is the first one made.
C22_DefaultsStayEmpty ==
    /\ defaults = NoDefaults
    /\ proxies = EmptyParams
    /\ \A i \in 1..Len(log) :
          /\ log[i].ev = "call" =>
                log[i].params = SentWithDefaults(OpAt(i), CallNo(i), log[i].url)
          /\ log[i].ev = "http" => log[i].request.proxies = EmptyParams

\* a search by tags made after a search by title has returned
C22_Witness ==
    /\ run = 2 /\ pc = "done" /\ op = "search_by_tags"
    /\ \E i \in 1..Len(log) :
          /\ log[i].ev = "begin" /\ log[i].after = "search_by_title"
          /\ i > 2 /\ log[i - 1].status = 200
          /\ CallNo(Len(log)) = 2
    /\ defaults = NoDefaults

====
